---- MODULE Spec2Model ----
(***************************************************************************)
(* Model of app.py: the two PDF tools (split a multi-page PDF by           *)
(* identifier, batch-rename PDFs by first-page BOL) and the pure helpers   *)
(* they share (normalize_ws, sanitize_filename, the rule tables and the    *)
(* two resolvers).                                                         *)
(*                                                                         *)
(* A Python str is a sequence of code points.  A code point is written as  *)
(* the one-character string that holds it, or, outside ASCII, as its       *)
(* "U+XXXX" name.                                                          *)
(***************************************************************************)
EXTENDS Integers, Sequences, FiniteSets, TLC

VARIABLES
    pc,                             \* where the running operation stands
    mode,                           \* split: the doc profile handed to split_pdf_pages_to_zip
    reader_pages,                   \* split: reader.pages, one record per page
    i,                              \* split: pages handled so far (the loop's i)
    seen,                           \* split: the run's seen set
    files,                          \* batch: the uploaded files
    custom_regex,                   \* batch / BOL resolver: the override pattern
    keep_original_name_fallback,    \* batch: the checkbox
    idx,                            \* batch: files handled so far (the loop's idx)
    untitled_idx,                   \* batch: the Untitled counter
    zipf,                           \* both tools: the entries written to the archive, in order
    arg,                            \* pure helpers: the input under test
    out,                            \* pure helpers: first result
    out2                            \* pure helpers: second result

vars == <<pc, mode, reader_pages, i, seen, files, custom_regex,
          keep_original_name_fallback, idx, untitled_idx, zipf, arg, out, out2>>

\* Python's None.
None == <<"None">>

(***************************************************************************)
(* Characters                                                              *)
(***************************************************************************)
UpperSeq == <<"A","B","C","D","E","F","G","H","I","J","K","L","M",
              "N","O","P","Q","R","S","T","U","V","W","X","Y","Z">>
LowerSeq == <<"a","b","c","d","e","f","g","h","i","j","k","l","m",
              "n","o","p","q","r","s","t","u","v","w","x","y","z">>
Upper == {UpperSeq[j] : j \in 1..26}
Lower == {LowerSeq[j] : j \in 1..26}
Letters == Upper \cup Lower
DigitSeq == <<"0","1","2","3","4","5","6","7","8","9">>
Digits == {DigitSeq[j] : j \in 1..10}

\* \s : U+00A0 is whitespace to str patterns as well.
Whitespace == {" ", "\t", "\n", "U+00A0"}
\* \w
WordChars == Letters \cup Digits \cup {"_"}
\* unicodedata.combining(ch) # 0
Combining == {"U+0301", "U+0327"}
\* the class of line 19
Forbidden == {"\\", "/", "*", "?", ":", "\"", "<", ">", "|"}

\* unicodedata.normalize("NFKD", ch) for one code point.
Decompose(ch) ==
    CASE ch = "U+00E9" -> <<"e", "U+0301">>      \* e with acute
      [] ch = "U+00E7" -> <<"c", "U+0327">>      \* c with cedilla
      [] ch = "U+00A0" -> <<" ">>                \* no-break space
      [] ch = "U+FF0A" -> <<"*">>                \* fullwidth asterisk
      [] OTHER -> <<ch>>

RECURSIVE Concat(_)
\* "".join(ss), by halves.
Concat(ss) ==
    IF Len(ss) = 0 THEN <<>>
    ELSE IF Len(ss) = 1 THEN ss[1]
    ELSE LET h == Len(ss) \div 2
         IN  Concat(SubSeq(ss, 1, h)) \o Concat(SubSeq(ss, h + 1, Len(ss)))

NFKD(s) == Concat([j \in 1..Len(s) |-> Decompose(s[j])])

\* re.sub(r"[cls]+", rep, s): every maximal run of cls becomes rep.
SubRuns(cls, rep, s) ==
    Concat([j \in 1..Len(s) |->
              IF s[j] \notin cls THEN <<s[j]>>
              ELSE IF j = 1 \/ s[j-1] \notin cls THEN rep
              ELSE <<>>])

\* str.strip()
Strip(s) ==
    LET keep == {j \in 1..Len(s) : s[j] \notin Whitespace}
        Lo == CHOOSE j \in keep : \A k \in keep : j <= k
        Hi == CHOOSE j \in keep : \A k \in keep : j >= k
    IN  IF keep = {} THEN <<>> ELSE SubSeq(s, Lo, Hi)

\* str.replace(a, b) for one-character a.
Replace(s, a, b) == Concat([j \in 1..Len(s) |-> IF s[j] = a THEN b ELSE <<s[j]>>])

\* s[:n]
Prefix(s, n) == SubSeq(s, 1, IF n < Len(s) THEN n ELSE Len(s))

(***************************************************************************)
(* Utilities (lines 13-21)                                                 *)
(***************************************************************************)
normalize_ws(s) == Strip(SubRuns(Whitespace, <<" ">>, IF s = None THEN <<>> ELSE s))

DefaultMaxLen == 120
Untitled == <<"U","n","t","i","t","l","e","d">>

\* Without the fallback of line 21.
sanitize_no_fallback(name, maxlen) ==
    LET n1 == NFKD(name)
        n2 == SelectSeq(n1, LAMBDA ch : ch \notin Combining)
        n3 == SubRuns(Forbidden, <<"_">>, n2)
        n4 == Replace(normalize_ws(n3), " ", <<"_">>)
    IN  Prefix(n4, maxlen)
\* With lines 17 and 18 in the other order.
sanitize_filter_first(name, maxlen) ==
    LET n1 == SelectSeq(name, LAMBDA ch : ch \notin Combining)
        n2 == NFKD(n1)
        n3 == SubRuns(Forbidden, <<"_">>, n2)
        n4 == Replace(normalize_ws(n3), " ", <<"_">>)
        n5 == Prefix(n4, maxlen)
    IN  IF n5 = <<>> THEN Untitled ELSE n5
sanitize_filename(name, maxlen) ==
    LET n1 == NFKD(name)
        n2 == SelectSeq(n1, LAMBDA ch : ch \notin Combining)
        n3 == SubRuns(Forbidden, <<"_">>, n2)
        n4 == Replace(normalize_ws(n3), " ", <<"_">>)
        n5 == Prefix(n4, maxlen)
    IN  IF n5 = <<>> THEN Untitled ELSE n5

(***************************************************************************)
(* Python's re, for the patterns of this program.  A pattern is a sequence *)
(* of atoms, matched by backtracking in re's order of preference:          *)
(*   lit   a literal string                                                *)
(*   set   a character class repeated lo..hi times, greedy (hi = -1: no    *)
(*         upper limit)                                                    *)
(*   alt   a non-capturing group of alternatives, tried left to right      *)
(*   star  a non-capturing group repeated, greedy                          *)
(*   wb    \b                                                              *)
(*   open, close   the parentheses of group 1                              *)
(* Every pattern is used with re.IGNORECASE: a literal letter and a letter *)
(* class match both cases.                                                 *)
(***************************************************************************)
\* Each letter with its other case.
OtherCase ==
    [ch \in Letters |->
        IF ch \in Upper THEN LowerSeq[CHOOSE j \in 1..26 : UpperSeq[j] = ch]
        ELSE UpperSeq[CHOOSE j \in 1..26 : LowerSeq[j] = ch]]
Fold(ch) == IF ch \in Letters THEN {ch, OtherCase[ch]} ELSE {ch}
FoldSet(cs) == UNION {Fold(ch) : ch \in cs}

Cls(cs, lo, hi) == <<[k |-> "set", cs |-> FoldSet(cs), lo |-> lo, hi |-> hi]>>
Lit(str) == <<[k |-> "lit", str |-> str]>>
Alt(alts) == <<[k |-> "alt", alts |-> alts]>>
Opt(atoms) == Alt(<<atoms, <<>>>>)
Star(atoms) == <<[k |-> "star", body |-> atoms]>>
WB == <<[k |-> "wb"]>>
Open == <<[k |-> "open"]>>
Close == <<[k |-> "close"]>>
WS0 == Cls(Whitespace, 0, -1)

NoMatch == [ok |-> FALSE, start |-> 0, end |-> 0, open |-> 0, close |-> 0]

\* How many characters of class cs stand at position p of s, at most hi.
RunLength(cs, hi, s, p) ==
    LET stops == {j \in p..Len(s) : s[j] \notin cs}
        stop == IF stops = {} THEN Len(s) + 1
                ELSE CHOOSE j \in stops : \A k \in stops : j <= k
        n == stop - p
    IN  IF hi >= 0 /\ n > hi THEN hi ELSE n

IsWordAt(s, p) == p >= 1 /\ p <= Len(s) /\ s[p] \in WordChars

\* Whether the literal str stands at position p of s, case ignored.
LitAt(str, s, p) ==
    /\ p + Len(str) - 1 <= Len(s)
    /\ \A j \in 1..Len(str) : s[p + j - 1] \in Fold(str[j])

RECURSIVE MatchAt(_, _, _, _), MatchRep(_, _, _, _, _, _), MatchAlt(_, _, _, _, _, _)
\* The atoms matched from position p of s; g = <<open, close>> of group 1 so far.
MatchAt(atoms, s, p, g) ==
    IF Len(atoms) = 0
    THEN [ok |-> TRUE, start |-> 0, end |-> p, open |-> g[1], close |-> g[2]]
    ELSE LET a == Head(atoms)
             rest == Tail(atoms)
         IN  CASE a.k = "set" ->
                    MatchRep(a, rest, s, p, RunLength(a.cs, a.hi, s, p), g)
               [] a.k = "lit" ->
                    IF LitAt(a.str, s, p)
                    THEN MatchAt(rest, s, p + Len(a.str), g) ELSE NoMatch
               [] a.k = "alt" -> MatchAlt(a.alts, 1, rest, s, p, g)
               [] a.k = "star" ->
                    LET more == MatchAt(a.body \o <<a>> \o rest, s, p, g)
                    IN  IF more.ok THEN more ELSE MatchAt(rest, s, p, g)
               [] a.k = "wb" ->
                    IF IsWordAt(s, p - 1) # IsWordAt(s, p)
                    THEN MatchAt(rest, s, p, g) ELSE NoMatch
               [] a.k = "open" -> MatchAt(rest, s, p, <<p, g[2]>>)
               [] a.k = "close" -> MatchAt(rest, s, p, <<g[1], p>>)
\* Greedy repetition: n repetitions first, then fewer, down to a.lo.
MatchRep(a, rest, s, p, n, g) ==
    IF n < a.lo THEN NoMatch
    ELSE LET r == MatchAt(rest, s, p + n, g)
         IN  IF r.ok THEN r ELSE MatchRep(a, rest, s, p, n - 1, g)
MatchAlt(alts, j, rest, s, p, g) ==
    IF j > Len(alts) THEN NoMatch
    ELSE LET r == MatchAt(alts[j] \o rest, s, p, g)
         IN  IF r.ok THEN r ELSE MatchAlt(alts, j + 1, rest, s, p, g)

\* re.search(patt, s, flags=re.IGNORECASE): the match at the leftmost position
\* that has one.
re_search(atoms, s) ==
    LET hits == {p \in 1..(Len(s) + 1) : MatchAt(atoms, s, p, <<0, 0>>).ok}
        first == CHOOSE p \in hits : \A q \in hits : p <= q
    IN  IF hits = {} THEN NoMatch
        ELSE [MatchAt(atoms, s, first, <<0, 0>>) EXCEPT !.start = first]

\* m.group(1) if m.lastindex else m.group(0)
group_1_or_0(m, s) ==
    IF m.open # 0 THEN SubSeq(s, m.open, m.close - 1) ELSE SubSeq(s, m.start, m.end - 1)

(***************************************************************************)
(* Split-by-identifier helpers (lines 26-64)                               *)
(***************************************************************************)
ModeAuto == "Auto (recommended)"
ModeEdi == "EDI Import"
ModeLegacy == "Legacy: Primary Reference"
Modes == {ModeAuto, ModeEdi, ModeLegacy}

Alnum == Letters \cup Digits
\* \s*[:\-]?\s*
Sep == WS0 \o Cls({":", "-"}, 0, 1) \o WS0
\* ([A-Z]{2,5}\d{4,}[A-Za-z0-9\-]*)
IdGroup == Open \o Cls(Upper, 2, 5) \o Cls(Digits, 4, -1) \o Cls(Alnum \cup {"-"}, 0, -1) \o Close

\* g.split("-", 1)[0]
trim_left_token(g) ==
    LET dashes == {j \in 1..Len(g) : g[j] = "-"}
        first == CHOOSE j \in dashes : \A k \in dashes : j <= k
    IN  IF dashes = {} THEN g ELSE SubSeq(g, 1, first - 1)

\* r"EDI\s*Import\s*Primary\s*Reference\s*[:\-]?\s*([A-Z]{2,5}\d{4,}[A-Za-z0-9\-]*)"
PattEdiImport ==
    Lit(<<"E","D","I">>) \o WS0 \o Lit(<<"I","m","p","o","r","t">>) \o WS0 \o Lit(<<"P","r","i","m","a","r","y">>) \o WS0
    \o Lit(<<"R","e","f","e","r","e","n","c","e">>) \o Sep \o IdGroup
\* r"Shipment\s*Matching\s*Reference\s*[:\-]?\s*([A-Z]{2,5}\d{4,}(?:[-_/][A-Za-z0-9]+)*)"
PattShipment ==
    Lit(<<"S","h","i","p","m","e","n","t">>) \o WS0 \o Lit(<<"M","a","t","c","h","i","n","g">>) \o WS0 \o Lit(<<"R","e","f","e","r","e","n","c","e">>) \o Sep
    \o Open \o Cls(Upper, 2, 5) \o Cls(Digits, 4, -1)
    \o Star(Cls({"-", "_", "/"}, 1, 1) \o Cls(Alnum, 1, -1)) \o Close
\* r"\bPrimary\s*Ref(?:erence)?\s*[:\-]?\s*([A-Z]{2,5}\d{4,}[A-Za-z0-9\-]*)"
PattPrimaryRef ==
    WB \o Lit(<<"P","r","i","m","a","r","y">>) \o WS0 \o Lit(<<"R","e","f">>) \o Opt(Lit(<<"e","r","e","n","c","e">>)) \o Sep \o IdGroup
\* r"\bBOL(?:\s*Number|\s*No\.?|#)?\s*[:\-]?\s*([A-Z]{2,5}\d{4,}[A-Za-z0-9\-]*)"
PattBolNumber ==
    WB \o Lit(<<"B","O","L">>)
    \o Alt(<<WS0 \o Lit(<<"N","u","m","b","e","r">>), WS0 \o Lit(<<"N","o">>) \o Cls({"."}, 0, 1), Lit(<<"#">>), <<>>>>)
    \o Sep \o IdGroup
\* r"\b(?:PLS|PCL)[-]?\d{4,}[A-Za-z0-9\-]*\b"
PattLoose ==
    WB \o Alt(<<Lit(<<"P","L","S">>), Lit(<<"P","C","L">>)>>) \o Cls({"-"}, 0, 1) \o Cls(Digits, 4, -1)
    \o Cls(Alnum \cup {"-"}, 0, -1) \o WB

edi_core ==
    << [label |-> "EDI Import Primary Reference", patt |-> PattEdiImport, post |-> "None"],
       [label |-> "Shipment Matching Reference", patt |-> PattShipment, post |-> "trim_left_token"] >>
legacy_core ==
    << [label |-> "Primary Reference / Primary Ref", patt |-> PattPrimaryRef, post |-> "None"],
       [label |-> "BOL Number", patt |-> PattBolNumber, post |-> "None"] >>
loose ==
    << [label |-> "Loose PLS/PCL token", patt |-> PattLoose, post |-> "None"] >>

patterns_for_mode(m) ==
    IF m = ModeEdi THEN edi_core \o legacy_core \o loose
    ELSE IF m = ModeLegacy THEN legacy_core \o edi_core \o loose
    ELSE edi_core \o legacy_core \o loose

RECURSIVE first_match(_, _, _)
\* The loop of lines 59-64 from rule j on.
first_match(patt_list, j, text) ==
    IF j > Len(patt_list) THEN None
    ELSE LET m == re_search(patt_list[j].patt, text)
             g == normalize_ws(group_1_or_0(m, text))
         IN  IF m.ok
             THEN normalize_ws(IF patt_list[j].post = "trim_left_token"
                               THEN trim_left_token(g) ELSE g)
             ELSE first_match(patt_list, j + 1, text)

extract_identifier(text, m) ==
    first_match(patterns_for_mode(m), 1, IF text = None THEN <<>> ELSE text)

(***************************************************************************)
(* Batch rename: the BOL resolver (lines 105-139)                          *)
(*                                                                         *)
(* An override is the text the user typed, held as what re makes of it:    *)
(* compile = "ok" and the pattern, or the exception compiling it raises.   *)
(* re raises re.error for a pattern it cannot parse and OverflowError for  *)
(* a repetition count of 2^32 or more.  compile = "none" is None.          *)
(***************************************************************************)
\* (PLS\d{8,})
PlsGroup == Open \o Lit(<<"P","L","S">>) \o Cls(Digits, 8, -1) \o Close
\* r"\bBOL\s*(?:Number|No\.?|#)?\s*[:\-]?\s*(PLS\d{8,})"
PattBol ==
    WB \o Lit(<<"B","O","L">>) \o WS0
    \o Alt(<<Lit(<<"N","u","m","b","e","r">>), Lit(<<"N","o">>) \o Cls({"."}, 0, 1), Lit(<<"#">>), <<>>>>)
    \o Sep \o PlsGroup
\* r"\bBill\s*of\s*Lading(?:\s*Number|\s*No\.?|#)?\s*[:\-]?\s*(PLS\d{8,})"
PattBillOfLading ==
    WB \o Lit(<<"B","i","l","l">>) \o WS0 \o Lit(<<"o","f">>) \o WS0 \o Lit(<<"L","a","d","i","n","g">>)
    \o Alt(<<WS0 \o Lit(<<"N","u","m","b","e","r">>), WS0 \o Lit(<<"N","o">>) \o Cls({"."}, 0, 1), Lit(<<"#">>), <<>>>>)
    \o Sep \o PlsGroup
\* r"\bPrimary\s*Ref(?:erence)?\s*[:\-]?\s*(PLS\d{8,})"
PattPrimaryRefPls ==
    WB \o Lit(<<"P","r","i","m","a","r","y">>) \o WS0 \o Lit(<<"R","e","f">>) \o Opt(Lit(<<"e","r","e","n","c","e">>)) \o Sep \o PlsGroup
labeled == <<PattBol, PattBillOfLading, PattPrimaryRefPls>>
\* r"\b(?:PLS|PCL)[-]?\d{6,}\b"
PattLooseBol ==
    WB \o Alt(<<Lit(<<"P","L","S">>), Lit(<<"P","C","L">>)>>) \o Cls({"-"}, 0, 1) \o Cls(Digits, 6, -1) \o WB

Returned(v) == [raised |-> "", value |-> v]
Raised(e) == [raised |-> e, value |-> None]

RECURSIVE first_labeled(_, _)
\* Lines 129-139: the labeled patterns from j on, then the loose token.
first_labeled(j, t) ==
    IF j > Len(labeled)
    THEN LET m == re_search(PattLooseBol, t)
         IN  IF m.ok THEN normalize_ws(SubSeq(t, m.start, m.end - 1)) ELSE None
    ELSE LET m == re_search(labeled[j], t)
         IN  IF m.ok THEN normalize_ws(SubSeq(t, m.open, m.close - 1))
             ELSE first_labeled(j + 1, t)

extract_bol_from_first_page(text, custom) ==
    LET t == IF text = None THEN <<>> ELSE text
        m == re_search(custom.patt, t)
    IN  IF custom.compile = "none" THEN Returned(first_labeled(1, t))
        ELSE IF custom.compile = "re.error" THEN Returned(first_labeled(1, t))
        ELSE IF custom.compile # "ok" THEN Raised(custom.compile)
        ELSE IF m.ok THEN Returned(normalize_ws(group_1_or_0(m, t)))
        ELSE Returned(first_labeled(1, t))

(***************************************************************************)
(* Values the variables of a tool hold while another part is checked       *)
(***************************************************************************)
NoOverride == [src |-> "", compile |-> "none", patt |-> <<>>]
SplitIdle == mode = ModeAuto /\ reader_pages = <<>> /\ i = 0 /\ seen = {}
BatchIdle ==
    /\ files = <<>> /\ custom_regex = NoOverride /\ keep_original_name_fallback = FALSE
    /\ idx = 0 /\ untitled_idx = 1
PureIdle == arg = <<>> /\ out = <<>> /\ out2 = <<>>
SplitVars == <<mode, reader_pages, i, seen>>
BatchVars == <<files, custom_regex, keep_original_name_fallback, idx, untitled_idx>>

(***************************************************************************)
(* sanitize_filename applied to a name and to its own result               *)
(***************************************************************************)
\* Longest tail of arbitrary characters in a name under test.
MaxTail == 3
SanAlphabet == {"a", "U+00E9", "*", "/", " ", "U+0301"}
Strings(alphabet, n) == UNION {[1..m -> alphabet] : m \in 0..n}
Pad(n) == [j \in 1..n |-> "a"]
\* Names that stay under the default maxlen and names that reach past it.
PadLens == {0, DefaultMaxLen - 2, DefaultMaxLen - 1, DefaultMaxLen}
SanInputs == {Pad(n) \o t : n \in PadLens, t \in Strings(SanAlphabet, MaxTail)}

InitSanitize ==
    /\ pc = "sanitize" /\ arg \in SanInputs /\ out = <<>> /\ out2 = <<>>
    /\ SplitIdle /\ BatchIdle /\ zipf = <<>>
SanitizeOnce ==
    /\ pc = "sanitize"
    /\ out' = sanitize_filename(arg, DefaultMaxLen)
    /\ pc' = "sanitized"
    /\ UNCHANGED <<SplitVars, BatchVars, zipf, arg, out2>>
SanitizeAgain ==
    /\ pc = "sanitized"
    /\ out2' = sanitize_filename(out, DefaultMaxLen)
    /\ pc' = "resanitized"
    /\ UNCHANGED <<SplitVars, BatchVars, zipf, arg, out>>
NextSanitize == SanitizeOnce \/ SanitizeAgain
SpecSanitize == InitSanitize /\ [][NextSanitize]_vars

(***************************************************************************)
(* extract_identifier applied to page texts                                *)
(*                                                                         *)
(* A text under test is held with the identifiers it was written from:     *)
(* edi is the identifier that follows the EDI label (None: no EDI label),  *)
(* legacy the one that follows the legacy label.                           *)
(***************************************************************************)
\* "EDI Import Primary Reference: "
L_EdiImport == <<"E","D","I"," ","I","m","p","o","r","t"," ","P","r","i","m","a","r","y"," ","R","e","f","e","r","e","n","c","e",":"," ">>
\* "Shipment Matching Reference: "
L_Shipment == <<"S","h","i","p","m","e","n","t"," ","M","a","t","c","h","i","n","g"," ","R","e","f","e","r","e","n","c","e",":"," ">>
\* "Primary Ref: "
L_PrimaryRef == <<"P","r","i","m","a","r","y"," ","R","e","f",":"," ">>
\* "Primary Reference: "
L_PrimaryReference == <<"P","r","i","m","a","r","y"," ","R","e","f","e","r","e","n","c","e",":"," ">>
\* "BOL Number: "
L_BolNumber == <<"B","O","L"," ","N","u","m","b","e","r",":"," ">>
EdiLabels == {L_EdiImport, L_Shipment}
LegacyLabels == {L_PrimaryRef, L_PrimaryReference, L_BolNumber}
\* "PCL43613", "PLS00174"
Ids == {<<"P","C","L","4","3","6","1","3">>, <<"P","L","S","0","0","1","7","4">>}
IdPairs == {q \in Ids \X Ids : q[1] # q[2]}
Gaps == {<<" ">>, <<"\n">>}

IdentInputs ==
    {[text |-> e \o q[1] \o g \o l \o q[2], edi |-> q[1], legacy |-> q[2]] :
        e \in EdiLabels, l \in LegacyLabels, q \in IdPairs, g \in Gaps}
    \cup
    {[text |-> l \o q[2] \o g \o e \o q[1], edi |-> q[1], legacy |-> q[2]] :
        e \in EdiLabels, l \in LegacyLabels, q \in IdPairs, g \in Gaps}
    \cup {[text |-> e \o a, edi |-> a, legacy |-> None] : e \in EdiLabels, a \in Ids}
    \cup {[text |-> l \o b, edi |-> None, legacy |-> b] : l \in LegacyLabels, b \in Ids}
    \cup {[text |-> <<>>, edi |-> None, legacy |-> None]}

InitIdentifier ==
    /\ pc = "identify" /\ arg \in IdentInputs /\ mode \in Modes
    /\ out = <<>> /\ out2 = <<>>
    /\ reader_pages = <<>> /\ i = 0 /\ seen = {} /\ BatchIdle /\ zipf = <<>>
ExtractIdentifier ==
    /\ pc = "identify"
    /\ out' = extract_identifier(arg.text, mode)
    /\ pc' = "identified"
    /\ UNCHANGED <<SplitVars, BatchVars, zipf, arg, out2>>
NextIdentifier == ExtractIdentifier
SpecIdentifier == InitIdentifier /\ [][NextIdentifier]_vars

(***************************************************************************)
(* extract_bol_from_first_page applied to first-page texts, without and    *)
(* with an override                                                        *)
(***************************************************************************)
\* "BOL Number: PLS00174455"
T_BolNumber == <<"B","O","L"," ","N","u","m","b","e","r",":"," ","P","L","S","0","0","1","7","4","4","5","5">>
\* "Bill of Lading No. PLS00174455"
T_BillOfLading == <<"B","i","l","l"," ","o","f"," ","L","a","d","i","n","g"," ","N","o","."," ","P","L","S","0","0","1","7","4","4","5","5">>
\* "Primary Ref: PLS12345678"
T_PrimaryRef == <<"P","r","i","m","a","r","y"," ","R","e","f",":"," ","P","L","S","1","2","3","4","5","6","7","8">>
\* "INV 7788 BOL# PLS00174455"
T_Invoice == <<"I","N","V"," ","7","7","8","8"," ","B","O","L","#"," ","P","L","S","0","0","1","7","4","4","5","5">>
\* "ref PCL-123456"
T_Loose == <<"r","e","f"," ","P","C","L","-","1","2","3","4","5","6">>
\* "PCL1234567 BOL: PLS00174455"
T_Both == <<"P","C","L","1","2","3","4","5","6","7"," ","B","O","L",":"," ","P","L","S","0","0","1","7","4","4","5","5">>
\* "BOL: PLS1234567"  (seven digits: no labeled rule, the loose token)
T_Short == <<"B","O","L",":"," ","P","L","S","1","2","3","4","5","6","7">>
\* "scanned page"
T_NoBol == <<"s","c","a","n","n","e","d"," ","p","a","g","e">>
BolTexts == {T_BolNumber, T_BillOfLading, T_PrimaryRef, T_Invoice, T_Loose, T_Both,
             T_Short, T_NoBol, <<>>}

\* "(PLS\d{8,}" : unterminated group, re.error
O_Unterminated == [src |-> "(PLS\\d{8,}", compile |-> "re.error", patt |-> <<>>]
\* "(PLS\d{4294967296})" : OverflowError("the repetition number is too large")
O_TooLarge == [src |-> "(PLS\\d{4294967296})", compile |-> "OverflowError", patt |-> <<>>]
\* r"INV\s*#?\s*(\d{4,})"
O_Invoice ==
    [src |-> "INV\\s*#?\\s*(\\d{4,})", compile |-> "ok",
     patt |-> Lit(<<"I","N","V">>) \o WS0 \o Cls({"#"}, 0, 1) \o WS0
              \o Open \o Cls(Digits, 4, -1) \o Close]
\* r"PCL\d+" : no group
O_Pcl ==
    [src |-> "PCL\\d+", compile |-> "ok", patt |-> Lit(<<"P","C","L">>) \o Cls(Digits, 1, -1)]
\* the placeholder of line 236: r"BOL\s*#?\s*[:\-]?\s*(PLS\d{8,})"
O_Placeholder ==
    [src |-> "BOL\\s*#?\\s*[:\\-]?\\s*(PLS\\d{8,})", compile |-> "ok",
     patt |-> Lit(<<"B","O","L">>) \o WS0 \o Cls({"#"}, 0, 1) \o Sep \o PlsGroup]
Overrides == {NoOverride, O_Unterminated, O_TooLarge, O_Invoice, O_Pcl, O_Placeholder}

InitBol ==
    /\ pc = "bol" /\ arg \in BolTexts /\ custom_regex \in Overrides
    /\ out = <<>> /\ out2 = <<>>
    /\ SplitIdle /\ files = <<>> /\ keep_original_name_fallback = FALSE
    /\ idx = 0 /\ untitled_idx = 1 /\ zipf = <<>>
\* extract_bol_from_first_page(text)
ExtractBolPlain ==
    /\ pc = "bol"
    /\ out' = extract_bol_from_first_page(arg, NoOverride)
    /\ pc' = "bol_plain"
    /\ UNCHANGED <<SplitVars, BatchVars, zipf, arg, out2>>
\* extract_bol_from_first_page(text, custom_regex)
ExtractBolOverride ==
    /\ pc = "bol_plain"
    /\ out2' = extract_bol_from_first_page(arg, custom_regex)
    /\ pc' = "bol_done"
    /\ UNCHANGED <<SplitVars, BatchVars, zipf, arg, out>>
NextBol == ExtractBolPlain \/ ExtractBolOverride
SpecBol == InitBol /\ [][NextBol]_vars

(***************************************************************************)
(* split_pdf_pages_to_zip (lines 66-100)                                   *)
(*                                                                         *)
(* A page is its text and whether page.extract_text() raises.  An archive  *)
(* entry is its name and the pages of the PDF written under it, by their   *)
(* numbers in the source document.                                         *)
(***************************************************************************)
RECURSIVE Str(_)
\* str(n), n >= 0
Str(n) == IF n < 10 THEN <<DigitSeq[n + 1]>> ELSE Str(n \div 10) \o <<DigitSeq[(n % 10) + 1]>>

DotPdf == <<".","p","d","f">>

\* Lines 78-81.
page_text(page) == IF page.extract_raises THEN <<>> ELSE page.text

\* Most pages of a document under test.
MaxPages == 4
\* "Shipment Matching Reference: ABC1234" and the same with the identifiers
\* "ABC1234_p2", "ABC1234_p4", "ABC1234_p4_3"
P_Base == L_Shipment \o <<"A","B","C","1","2","3","4">>
P_Base_p2 == L_Shipment \o <<"A","B","C","1","2","3","4","_","p","2">>
P_Base_p4 == L_Shipment \o <<"A","B","C","1","2","3","4","_","p","4">>
P_Base_p4_3 == L_Shipment \o <<"A","B","C","1","2","3","4","_","p","4","_","3">>
Pages ==
    {[text |-> t, extract_raises |-> FALSE] :
        t \in {P_Base, P_Base_p2, P_Base_p4, P_Base_p4_3, T_NoBol}}
    \cup {[text |-> P_Base, extract_raises |-> TRUE]}
Documents == UNION {[1..n -> Pages] : n \in 0..MaxPages}

\* extract_identifier on the texts of the pages under test, computed once.
PageIdentifiers ==
    [t \in {pg.text : pg \in Pages} \cup {<<>>}, m \in Modes |-> extract_identifier(t, m)]

\* Line 82: extract_identifier(text, mode) or f"Page_{i}"
page_ident(text, m, n) ==
    LET ident == PageIdentifiers[text, m]
    IN  IF ident = None \/ ident = <<>> THEN <<"P","a","g","e","_">> \o Str(n) ELSE ident

\* Line 88.
suffixed_numbered(base, n, suff) == base \o <<"_","p">> \o Str(n) \o <<"_">> \o Str(suff)
suffixed(base, n, suff) ==
    IF suff = 2 THEN base \o <<"_","p">> \o Str(n)
    ELSE base \o <<"_","p">> \o Str(n) \o <<"_">> \o Str(suff)

\* An if in place of the while.
dedupe_once(fname, base, n, suff, sn) ==
    IF fname \in sn THEN suffixed(base, n, suff) ELSE fname
RECURSIVE dedupe(_, _, _, _, _)
\* The while loop of lines 87-89, entered with fname, base, i, suff and seen.
dedupe(fname, base, n, suff, sn) ==
    IF fname \in sn THEN dedupe(suffixed(base, n, suff), base, n, suff + 1, sn)
    ELSE fname

\* Lines 76-77: the pages the round's fresh writer holds.
writer_pages(n) == <<n>>

\* One round of the for loop, lines 75-97.
SplitPage_skip_unreadable ==
    /\ pc = "split"
    /\ i < Len(reader_pages)
    /\ LET n == i + 1
           text == page_text(reader_pages[n])
           base == sanitize_filename(page_ident(text, mode, n), DefaultMaxLen)
           fname == dedupe(base, base, n, 2, seen)
       IN  /\ i' = n
           /\ IF reader_pages[n].extract_raises
              THEN UNCHANGED <<seen, zipf>>
              ELSE /\ seen' = seen \cup {fname}
                   /\ zipf' = Append(zipf, [name |-> fname \o DotPdf, kind |-> "pdf",
                                            pages |-> writer_pages(n)])
    /\ UNCHANGED <<pc, mode, reader_pages, BatchVars, arg, out, out2>>
SplitPage ==
    /\ pc = "split"
    /\ i < Len(reader_pages)
    /\ LET n == i + 1
           text == page_text(reader_pages[n])
           base == sanitize_filename(page_ident(text, mode, n), DefaultMaxLen)
           fname == dedupe(base, base, n, 2, seen)
       IN  /\ seen' = seen \cup {fname}
           /\ zipf' = Append(zipf, [name |-> fname \o DotPdf, kind |-> "pdf",
                                    pages |-> writer_pages(n)])
           /\ i' = n
    /\ UNCHANGED <<pc, mode, reader_pages, BatchVars, arg, out, out2>>
\* Lines 99-100.
SplitReturn ==
    /\ pc = "split"
    /\ i = Len(reader_pages)
    /\ pc' = "returned"
    /\ UNCHANGED <<SplitVars, BatchVars, zipf, arg, out, out2>>

InitSplit ==
    /\ pc = "split" /\ mode \in Modes /\ reader_pages \in Documents
    /\ i = 0 /\ seen = {} /\ zipf = <<>>
    /\ BatchIdle /\ PureIdle
NextSplit == SplitPage \/ SplitReturn
SpecSplit == InitSplit /\ [][NextSplit]_vars

(***************************************************************************)
(* batch_rename_pdfs_to_zip (lines 141-186)                                *)
(*                                                                         *)
(* An uploaded file is its name (None: no name), its first page's text and *)
(* the step of lines 156-176 that raises on it:                            *)
(*   "open"          PdfReader(up)                                         *)
(*   "first_page"    reader.pages[0]                                       *)
(*   "extract_text"  first_page.extract_text(), caught at line 160         *)
(*   "read"          up.seek(0) / up.read()                                *)
(*   "none"          no step                                               *)
(* An entry of kind "bytes" holds the bytes of file number `of` unchanged, *)
(* one of kind "error" the diagnostic for it.                              *)
(***************************************************************************)
\* s.rsplit(sep, 1)[-1] for a one-character sep
after_last(s, sep) ==
    LET at == {j \in 1..Len(s) : s[j] = sep}
        last == CHOOSE j \in at : \A k \in at : j >= k
    IN  IF at = {} THEN s ELSE SubSeq(s, last + 1, Len(s))
\* s.rsplit(sep, 1)[0]
before_last(s, sep) ==
    LET at == {j \in 1..(Len(s) - Len(sep) + 1) : SubSeq(s, j, j + Len(sep) - 1) = sep}
        last == CHOOSE j \in at : \A k \in at : j >= k
    IN  IF at = {} THEN s ELSE SubSeq(s, 1, last - 1)

\* Lines 164-172: <<new_name, untitled_idx afterwards>>.
new_name(bol, up, keep, untitled) ==
    IF bol # None /\ bol # <<>>
    THEN <<sanitize_filename(bol, DefaultMaxLen) \o DotPdf, untitled>>
    ELSE IF keep /\ up.name # None /\ up.name # <<>>
    THEN LET base == after_last(after_last(up.name, "/"), "\\")
         IN  <<sanitize_filename(before_last(base, DotPdf), DefaultMaxLen) \o DotPdf, untitled>>
    ELSE <<<<"U","n","t","i","t","l","e","d","_">> \o Str(untitled) \o DotPdf, untitled + 1>>

\* Line 181.
error_entry(n) ==
    [name |-> <<"E","R","R","O","R","_">> \o Str(n) \o <<".","t","x","t">>, kind |-> "error", of |-> n]

\* Most files of a batch under test.
MaxFiles == 2
Upload(nm, text, fault) == [name |-> nm, text |-> text, fault |-> fault]
\* "a.pdf", "b.pdf", "c.pdf", "x/a.pdf", "Untitled_1.pdf"
Uploads ==
    { Upload(<<"a",".","p","d","f">>, T_BolNumber, "none"),
      Upload(<<"b",".","p","d","f">>, T_BillOfLading, "none"),
      Upload(<<"a",".","p","d","f">>, T_NoBol, "none"),
      Upload(<<"x","/","a",".","p","d","f">>, T_NoBol, "none"),
      Upload(<<"U","n","t","i","t","l","e","d","_","1",".","p","d","f">>, T_NoBol, "none"),
      Upload(None, T_NoBol, "none"),
      Upload(<<"c",".","p","d","f">>, T_BolNumber, "open"),
      Upload(<<"c",".","p","d","f">>, T_BolNumber, "first_page"),
      Upload(<<"c",".","p","d","f">>, T_BolNumber, "extract_text"),
      Upload(<<"c",".","p","d","f">>, T_NoBol, "read") }
\* Line 245: the tool runs on a non-empty upload.
Batches == UNION {[1..n -> Uploads] : n \in 1..MaxFiles}
BatchOverrides == {NoOverride, O_TooLarge, O_Placeholder}

\* extract_bol_from_first_page on the first-page texts and overrides under
\* test, computed once.
FirstPageBols ==
    [t \in {up.text : up \in Uploads} \cup {<<>>}, o \in BatchOverrides |->
        extract_bol_from_first_page(t, o)]

\* One round of the for loop, lines 154-183.
\* Without the stub of line 181.
BatchFile_silent ==
    /\ pc = "batch"
    /\ idx < Len(files)
    /\ LET n == idx + 1
           up == files[n]
           text == IF up.fault = "extract_text" THEN <<>> ELSE up.text
           bol == FirstPageBols[text, custom_regex]
           named == new_name(bol.value, up, keep_original_name_fallback, untitled_idx)
       IN  /\ idx' = n
           /\ IF up.fault \in {"open", "first_page"}
              THEN UNCHANGED <<zipf, untitled_idx>>
              ELSE IF bol.raised # ""
              THEN UNCHANGED <<zipf, untitled_idx>>
              ELSE IF up.fault = "read"
              THEN UNCHANGED zipf /\ untitled_idx' = named[2]
              ELSE /\ zipf' = Append(zipf, [name |-> named[1], kind |-> "bytes", of |-> n])
                   /\ untitled_idx' = named[2]
    /\ UNCHANGED <<pc, files, custom_regex, keep_original_name_fallback, SplitVars,
                   arg, out, out2>>
\* With up.read() outside the try.
BatchFile_read_unguarded ==
    /\ pc = "batch"
    /\ idx < Len(files)
    /\ LET n == idx + 1
           up == files[n]
           text == IF up.fault = "extract_text" THEN <<>> ELSE up.text
           bol == FirstPageBols[text, custom_regex]
           named == new_name(bol.value, up, keep_original_name_fallback, untitled_idx)
       IN  /\ idx' = n
           /\ pc' = IF up.fault = "read" /\ bol.raised = "" THEN "raised" ELSE pc
           /\ IF up.fault \in {"open", "first_page"}
              THEN zipf' = Append(zipf, error_entry(n)) /\ UNCHANGED untitled_idx
              ELSE IF bol.raised # ""
              THEN zipf' = Append(zipf, error_entry(n)) /\ UNCHANGED untitled_idx
              ELSE IF up.fault = "read"
              THEN UNCHANGED zipf /\ untitled_idx' = named[2]
              ELSE /\ zipf' = Append(zipf, [name |-> named[1], kind |-> "bytes", of |-> n])
                   /\ untitled_idx' = named[2]
    /\ UNCHANGED <<files, custom_regex, keep_original_name_fallback, SplitVars,
                   arg, out, out2>>
BatchFile ==
    /\ pc = "batch"
    /\ idx < Len(files)
    /\ LET n == idx + 1
           up == files[n]
           text == IF up.fault = "extract_text" THEN <<>> ELSE up.text
           bol == FirstPageBols[text, custom_regex]
           named == new_name(bol.value, up, keep_original_name_fallback, untitled_idx)
       IN  /\ idx' = n
           /\ IF up.fault \in {"open", "first_page"}
              THEN zipf' = Append(zipf, error_entry(n)) /\ UNCHANGED untitled_idx
              ELSE IF bol.raised # ""
              THEN zipf' = Append(zipf, error_entry(n)) /\ UNCHANGED untitled_idx
              ELSE IF up.fault = "read"
              THEN zipf' = Append(zipf, error_entry(n)) /\ untitled_idx' = named[2]
              ELSE /\ zipf' = Append(zipf, [name |-> named[1], kind |-> "bytes", of |-> n])
                   /\ untitled_idx' = named[2]
    /\ UNCHANGED <<pc, files, custom_regex, keep_original_name_fallback, SplitVars,
                   arg, out, out2>>
\* Lines 185-186.
BatchReturn ==
    /\ pc = "batch"
    /\ idx = Len(files)
    /\ pc' = "returned"
    /\ UNCHANGED <<SplitVars, BatchVars, zipf, arg, out, out2>>

InitBatch ==
    /\ pc = "batch" /\ files \in Batches
    /\ custom_regex \in BatchOverrides
    /\ keep_original_name_fallback \in BOOLEAN
    /\ idx = 0 /\ untitled_idx = 1 /\ zipf = <<>>
    /\ SplitIdle /\ PureIdle
NextBatch == BatchFile \/ BatchReturn
SpecBatch == InitBatch /\ [][NextBatch]_vars

(***************************************************************************)
(* The app: the sidebar's radio picks the tool (lines 192-261)             *)
(***************************************************************************)
Init == InitSplit \/ InitBatch
Next == SplitPage \/ SplitReturn \/ BatchFile \/ BatchReturn
Spec == Init /\ [][Next]_vars

(***************************************************************************)
(* Properties                                                              *)
(***************************************************************************)
EndsWith(str, suf) ==
    Len(str) >= Len(suf) /\ SubSeq(str, Len(str) - Len(suf) + 1, Len(str)) = suf
StartsWith(str, pre) == Len(str) >= Len(pre) /\ SubSeq(str, 1, Len(pre)) = pre

\* C1: in page-split mode the names the dedupe step returns against the run's
\* seen set are pairwise distinct, so no two entries written into the archive
\* share a name, whatever identifiers the pages resolve to.
C1_SplitNamesDistinct ==
    /\ Cardinality(seen) = i
    /\ \A a, b \in 1..Len(zipf) : a # b => zipf[a].name # zipf[b].name
    /\ \A k \in 1..Len(zipf) : \E f \in seen : zipf[k].name = f \o DotPdf
\* Pages 1 and 2 resolve to the same identifier and page 3's identifier is the
\* name the dedupe step gave page 2.
C1_Witness ==
    /\ pc = "returned" /\ Len(reader_pages) >= 3
    /\ reader_pages[1] = [text |-> P_Base, extract_raises |-> FALSE]
    /\ reader_pages[2] = [text |-> P_Base, extract_raises |-> FALSE]
    /\ reader_pages[3] = [text |-> P_Base_p2, extract_raises |-> FALSE]
    /\ zipf[2].name = <<"A","B","C","1","2","3","4","_","p","2",".","p","d","f">>
    /\ zipf[3].name = <<"A","B","C","1","2","3","4","_","p","2","_","p","3",".","p","d","f">>

\* C2: in every archive batch-rename mode produces, no two entries share a name.
C2_BatchNamesDistinct ==
    \A a \in 1..Len(zipf) : \A b \in (a + 1)..Len(zipf) : zipf[a].name # zipf[b].name

\* C3: page-split mode on N pages writes exactly N entries, the k-th holding
\* exactly page k, whatever the texts are and whether or not extraction fails.
C3_OneEntryPerPage ==
    /\ Len(zipf) = i
    /\ \A k \in 1..Len(zipf) : zipf[k].kind = "pdf" /\ zipf[k].pages = <<k>>
    /\ pc = "returned" => Len(zipf) = Len(reader_pages)
\* A document with a readable and an unreadable page has been split.
C3_Witness ==
    /\ pc = "returned" /\ Len(reader_pages) >= 2
    /\ \E k \in 1..Len(reader_pages) : reader_pages[k].extract_raises
    /\ \E k \in 1..Len(reader_pages) : ~reader_pages[k].extract_raises
    /\ Len(zipf) = Len(reader_pages)

\* Whether processing file k of the batch raises before its bytes are written.
Failed(k) ==
    \/ files[k].fault \in {"open", "first_page", "read"}
    \/ extract_bol_from_first_page(
           IF files[k].fault = "extract_text" THEN <<>> ELSE files[k].text,
           custom_regex).raised # ""
FailedFiles == {k \in 1..Len(files) : Failed(k)}
PdfEntries == {k \in 1..Len(zipf) : EndsWith(zipf[k].name, DotPdf)}
ErrorEntries ==
    {k \in 1..Len(zipf) : StartsWith(zipf[k].name, <<"E","R","R","O","R","_">>) /\ EndsWith(zipf[k].name, <<".","t","x","t">>)}

\* C4 as claimed: batch-rename mode on M documents produces exactly M '.pdf'
\* entries, also when some documents fail.
C4_AllDocumentsRenamed == pc = "returned" => Cardinality(PdfEntries) = Len(files)
\* C4 as amended: batch-rename mode on M documents writes exactly M entries, a
\* '.pdf' entry for each document processed without failure and the entry
\* 'ERROR_<idx>.txt' for each document, at position idx, whose processing failed.
C4_OneEntryPerDocument ==
    pc = "returned" =>
        /\ Len(zipf) = Len(files)
        /\ Cardinality(PdfEntries) = Len(files) - Cardinality(FailedFiles)
        /\ Cardinality(ErrorEntries) = Cardinality(FailedFiles)
        /\ \A k \in FailedFiles : \E e \in ErrorEntries : zipf[e] = error_entry(k)
\* A batch in which some documents failed and some did not has been renamed.
C4_Witness ==
    /\ pc = "returned" /\ Len(files) >= 2
    /\ FailedFiles # {} /\ FailedFiles # 1..Len(files)
    /\ Cardinality(PdfEntries) < Len(files)

\* C5: on a text with an EDI-labelled identifier and a legacy-labelled one, in
\* either order, the auto and EDI profiles return the EDI identifier and the
\* legacy profile returns the legacy identifier.
C5_RulePriority ==
    (pc = "identified" /\ arg.edi # None /\ arg.legacy # None) =>
        /\ mode \in {ModeAuto, ModeEdi} => out = arg.edi
        /\ mode = ModeLegacy => out = arg.legacy

\* C6: an override that is malformed or does not match raises no error and
\* gives exactly the result of no override; an override that matches wins.
Malformed(custom) == custom.compile \notin {"none", "ok"}
C6_OverrideAdvisory ==
    pc = "bol_done" =>
        LET m == re_search(custom_regex.patt, arg)
        IN  /\ (Malformed(custom_regex) \/ (custom_regex.compile = "ok" /\ ~m.ok))
                => out2.raised = "" /\ out2 = out
            /\ (custom_regex.compile = "ok" /\ m.ok)
                => out2 = Returned(normalize_ws(group_1_or_0(m, arg)))

\* C7: when a step of processing the document at position k raises, the batch
\* goes on: exactly one entry, 'ERROR_<k>.txt', is written for that document and
\* no '.pdf' entry, every later document gets its entry, and the run returns.
C7_FailureIsolated ==
    /\ pc \in {"batch", "returned"}
    /\ Len(zipf) = idx
    /\ pc = "returned" => idx = Len(files)
    /\ \A k \in 1..idx :
          /\ zipf[k].of = k
          /\ Failed(k) =>
                /\ zipf[k] = error_entry(k)
                /\ \A e \in 1..Len(zipf) :
                      zipf[e].of = k => (e = k /\ ~EndsWith(zipf[e].name, DotPdf))
          /\ ~Failed(k) => zipf[k].kind = "bytes" /\ EndsWith(zipf[k].name, DotPdf)
\* The first document fails reading its bytes and the second is renamed.
C7_Witness ==
    /\ pc = "returned" /\ Len(files) = 2
    /\ files[1].fault = "read" /\ ~Failed(2)
    /\ zipf[1].name = <<"E","R","R","O","R","_","1",".","t","x","t">>
    /\ zipf[2].name = <<"P","L","S","0","0","1","7","4","4","5","5",".","p","d","f">>

OnlyUnusable(str) == \A j \in 1..Len(str) : str[j] \in Forbidden \cup Whitespace \cup Combining
\* C8 as claimed: a name made only of forbidden characters, whitespace and
\* combining marks, "" and "***" among them, sanitizes to "Untitled".
C8_UnusableGivesUntitled ==
    (pc # "sanitize" /\ OnlyUnusable(arg)) => out = Untitled
\* C8 as amended: a name made only of whitespace and combining marks, "" among
\* them, sanitizes to "Untitled"; one made only of forbidden characters,
\* whitespace and combining marks with at least one forbidden character
\* sanitizes to a non-empty run of underscores, "***" to "_".
C8_UnusableGivesUntitledOrUnderscores ==
    (pc # "sanitize" /\ OnlyUnusable(arg)) =>
        /\ (\A j \in 1..Len(arg) : arg[j] \notin Forbidden) => out = Untitled
        /\ (\E j \in 1..Len(arg) : arg[j] \in Forbidden)
              => Len(out) >= 1 /\ \A j \in 1..Len(out) : out[j] = "_"
        /\ arg = <<>> => out = Untitled
        /\ arg = <<"*", "*", "*">> => out = <<"_">>
\* "***" has been sanitized.
C8_Witness == pc = "sanitized" /\ arg = <<"*", "*", "*">> /\ out = <<"_">>

\* C9: with the default maxlen, sanitize_filename(sanitize_filename(x)) =
\* sanitize_filename(x), also when the first pass truncates or gives "Untitled".
C9_Idempotent == pc = "resanitized" => out2 = out
\* The first pass truncated a name longer than the default maxlen.
C9_Witness ==
    /\ pc = "resanitized"
    /\ Len(arg) > DefaultMaxLen /\ Len(out) = DefaultMaxLen
    /\ \E j \in 1..Len(arg) : arg[j] # "a"
    /\ out2 = out

\* The k-th name of the sequence B, B_p<n>, B_p<n>_3, B_p<n>_4, ...
Candidate(B, n, k) ==
    IF k = 0 THEN B
    ELSE IF k = 1 THEN B \o <<"_","p">> \o Str(n)
    ELSE B \o <<"_","p">> \o Str(n) \o <<"_">> \o Str(k + 1)
FirstFree(B, n, sn) ==
    LET free == {k \in 0..Cardinality(sn) : Candidate(B, n, k) \notin sn}
    IN  Candidate(B, n, CHOOSE k \in free : \A j \in free : k <= j)
\* C10: for page n with sanitized base name B the emitted name is the first
\* name not in the seen set of B, B_p<n>, B_p<n>_3, B_p<n>_4, ..., and it is
\* then added to the seen set; pages 1 and 2 both resolving to ABC1234 are
\* written as ABC1234.pdf and ABC1234_p2.pdf.
C10_DedupeSequence ==
    /\ []((/\ Len(zipf) >= 2
            /\ reader_pages[1] = [text |-> P_Base, extract_raises |-> FALSE]
            /\ reader_pages[2] = [text |-> P_Base, extract_raises |-> FALSE])
           => /\ zipf[1].name = <<"A","B","C","1","2","3","4",".","p","d","f">>
              /\ zipf[2].name = <<"A","B","C","1","2","3","4","_","p","2",".","p","d","f">>)
    /\ [][i' = i + 1 =>
         LET n == i'
             B == sanitize_filename(
                      page_ident(page_text(reader_pages[n]), mode, n), DefaultMaxLen)
             e == FirstFree(B, n, seen)
         IN  /\ zipf' = Append(zipf, [name |-> e \o DotPdf, kind |-> "pdf", pages |-> <<n>>])
             /\ seen' = seen \cup {e}]_vars
\* Page 4 resolves to ABC1234 with ABC1234, ABC1234_p4 and ABC1234_p4_3 seen.
C10_Witness ==
    /\ pc = "returned" /\ Len(zipf) = 4
    /\ zipf[1].name = <<"A","B","C","1","2","3","4",".","p","d","f">>
    /\ zipf[4].name = <<"A","B","C","1","2","3","4","_","p","4","_","4",".","p","d","f">>

====
